---- MODULE Spec2Model ----
(***************************************************************************)
(* Cover Printer: the grid layout, the per-placeholder image fit / pan /   *)
(* zoom state of AppComponent (src/src/app/app.component.ts) and the       *)
(* settings persistence of StorageService (src/unnamed/part_001).          *)
(*                                                                         *)
(* JavaScript numbers are modelled as exact rationals [n, d] in lowest     *)
(* terms (d > 0): the arithmetic is the code's arithmetic without the      *)
(* rounding of IEEE doubles. SpecDecimal is the layout in binary64, with   *)
(* its rounding, on decimal fractions.                                     *)
(***************************************************************************)
EXTENDS Integers, Sequences, FiniteSets, TLC

(***************************************************************************)
(* Bounds of the model.                                                    *)
(***************************************************************************)
\* placeholders 0 .. MaxTouched-1 of a grid receive user events
MaxTouched == 1
\* wheel steps and drag starts on one placeholder since it was last empty
MaxEdits == 1
\* wheel steps on one placeholder since it was last empty when nothing is dragged
MaxZoomSteps == 2
\* image loads in flight at one time
MaxPending == 1
\* handlers that run while one drag is active (mouse button held)
MaxDragEvents == 2

(***************************************************************************)
(* Numbers: exact rational arithmetic.                                     *)
(***************************************************************************)
Abs(a) == IF a < 0 THEN -a ELSE a

RECURSIVE Gcd(_, _)
Gcd(a, b) == IF b = 0 THEN a ELSE Gcd(b, a % b)

\* the rational n/d (d # 0) in lowest terms with a positive denominator
Frac(n, d) ==
    LET g == Gcd(Abs(n), Abs(d))
        s == IF d < 0 THEN -1 ELSE 1
    IN  [n |-> s * (n \div g), d |-> s * (d \div g)]

Q(i) == [n |-> i, d |-> 1]

RNeg(a) == [n |-> -a.n, d |-> a.d]

RAdd(a, b) ==
    LET g == Gcd(a.d, b.d)
    IN  Frac(a.n * (b.d \div g) + b.n * (a.d \div g), (a.d \div g) * b.d)

RSub(a, b) == RAdd(a, RNeg(b))

RMul(a, b) ==
    LET g1 == Gcd(Abs(a.n), b.d)
        g2 == Gcd(Abs(b.n), a.d)
    IN  IF a.n = 0 \/ b.n = 0 THEN Q(0)
        ELSE [n |-> (a.n \div g1) * (b.n \div g2), d |-> (a.d \div g2) * (b.d \div g1)]

\* a / b for b # 0
RDiv(a, b) ==
    RMul(a, IF b.n < 0 THEN [n |-> -b.d, d |-> -b.n] ELSE [n |-> b.d, d |-> b.n])

RLe(a, b) ==
    LET g == Gcd(a.d, b.d)
    IN  a.n * (b.d \div g) <= b.n * (a.d \div g)

RLt(a, b) == ~RLe(b, a)

RMax(a, b) == IF RLe(a, b) THEN b ELSE a

RMin(a, b) == IF RLe(a, b) THEN a ELSE b

\* Math.floor
Floor(a) == a.n \div a.d

(***************************************************************************)
(* Numbers: binary64. Where a decimal fraction is typed into a field the   *)
(* rounding of IEEE doubles decides what calculateGrid does. A double v    *)
(* with |v| < 1024 that is a multiple of 2^-56 is kept exactly, as the     *)
(* integer |v| * 2^56 in limbs of 16 bits.                                 *)
(***************************************************************************)
\* limbs of 16 bits, least significant first, no leading zero limb; 0 is << >>
\* the element of a singleton set: The({ e(v) : v \in {x} }) is e(x) with x
\* worked out once
The(S) == CHOOSE r \in S : TRUE

\* limbs of 16 bits, least significant first, no leading zero limb; 0 is << >>
Base == 65536

RECURSIVE BigNorm(_)
BigNorm(a) ==
    The({ IF x = << >> THEN x
          ELSE IF x[Len(x)] = 0 THEN BigNorm(SubSeq(x, 1, Len(x) - 1)) ELSE x : x \in {a} })

RECURSIVE BigOfInt(_)
BigOfInt(i) == IF i = 0 THEN << >> ELSE << i % Base >> \o BigOfInt(i \div Base)

\* -1, 0, 1 as a < b, a = b, a > b, from limb i down, for numbers of one length
RECURSIVE BigCmpFrom(_, _, _)
BigCmpFrom(a, b, i) ==
    IF i = 0 THEN 0
    ELSE IF a[i] < b[i] THEN -1
    ELSE IF a[i] > b[i] THEN 1
    ELSE BigCmpFrom(a, b, i - 1)

BigCmp(a, b) ==
    The({ IF Len(x) < Len(y) THEN -1
          ELSE IF Len(x) > Len(y) THEN 1
          ELSE BigCmpFrom(x, y, Len(x)) : x \in {a}, y \in {b} })

Limb(a, i) == IF i <= Len(a) THEN a[i] ELSE 0

RECURSIVE BigAddFrom(_, _, _, _)
BigAddFrom(a, b, i, carry) ==
    IF i > Len(a) /\ i > Len(b)
    THEN (IF carry = 0 THEN << >> ELSE << carry >>)
    ELSE The({ << sum % Base >> \o BigAddFrom(a, b, i + 1, sum \div Base) :
                   sum \in { Limb(a, i) + Limb(b, i) + carry } })

BigAdd(a, b) == The({ BigAddFrom(x, y, 1, 0) : x \in {a}, y \in {b} })

\* a - b for a >= b
RECURSIVE BigSubFrom(_, _, _, _)
BigSubFrom(a, b, i, borrow) ==
    IF i > Len(a) THEN << >>
    ELSE The({ << diff % Base >> \o BigSubFrom(a, b, i + 1, IF diff < 0 THEN 1 ELSE 0) :
                   diff \in { Limb(a, i) - Limb(b, i) - borrow } })

BigSub(a, b) == BigNorm(The({ BigSubFrom(x, y, 1, 0) : x \in {a}, y \in {b} }))

\* a * k for 0 <= k < 2^15
RECURSIVE BigMulFrom(_, _, _, _)
BigMulFrom(a, k, i, carry) ==
    IF i > Len(a) THEN BigOfInt(carry)
    ELSE The({ << prod % Base >> \o BigMulFrom(a, k, i + 1, prod \div Base) :
                   prod \in { a[i] * k + carry } })

BigMulSmall(a, k) == BigNorm(The({ BigMulFrom(x, n, 1, 0) : x \in {a}, n \in {k} }))

\* a div k and a mod k for 0 < k < 2^15, from limb i down
RECURSIVE BigDivFrom(_, _, _, _)
BigDivFrom(a, k, i, rem) ==
    IF i = 0 THEN [q |-> << >>, r |-> rem]
    ELSE The({ [q |-> rest.q \o << cur \div k >>, r |-> rest.r] :
                   cur \in { rem * Base + a[i] },
                   rest \in { BigDivFrom(a, k, i - 1, (rem * Base + a[i]) % k) } })

BigDivSmall(a, k) ==
    The({ [q |-> BigNorm(d.q), r |-> d.r] :
              d \in { The({ BigDivFrom(x, n, Len(x), 0) : x \in {a}, n \in {k} }) } })

RECURSIVE IntBitLen(_)
IntBitLen(i) == IF i = 0 THEN 0 ELSE 1 + IntBitLen(i \div 2)

BigBitLen(a) ==
    The({ IF x = << >> THEN 0 ELSE 16 * (Len(x) - 1) + IntBitLen(x[Len(x)]) : x \in {a} })

RECURSIVE Pow2(_)
Pow2(n) == IF n = 0 THEN 1 ELSE 2 * Pow2(n - 1)

BigOdd(a) == The({ x # << >> /\ x[1] % 2 = 1 : x \in {a} })

\* a rounded to 53 significant bits, ties to even, when sh > 0 bits are cut;
\* sticky: bits below a were cut before
RoundCut(a, sh, sticky) ==
    The({ BigMulSmall(IF \/ d.r > Pow2(sh - 1)
                         \/ d.r = Pow2(sh - 1) /\ (sticky \/ BigOdd(d.q))
                      THEN BigAdd(d.q, << 1 >>) ELSE d.q,
                      Pow2(sh)) :
              d \in { BigDivSmall(a, Pow2(sh)) } })

RoundSticky(a, sticky) ==
    The({ IF BigBitLen(x) <= 53 THEN x ELSE RoundCut(x, BigBitLen(x) - 53, sticky) :
              x \in {a} })

Round53(a) == RoundSticky(a, FALSE)

\* a binary64 value v with |v| < 1024 that is a multiple of 2^-56:
\* [neg, mag] with mag = |v| * 2^56
DblZero == [neg |-> FALSE, mag |-> << >>]

RECURSIVE Pow10(_)
Pow10(e) == IF e = 0 THEN 1 ELSE 10 * Pow10(e - 1)

\* the binary64 value of the decimal text n / 10^e (0, or at least 1): the
\* quotient with 16 more bits, rounded to 53 bits
DecToDbl(dec) ==
    IF dec.n = 0 THEN DblZero
    ELSE The({ [neg |-> FALSE,
                mag |-> RoundSticky(Tail(d.q), d.r # 0 \/ d.q[1] # 0)] :
                   d \in { BigDivSmall(<< 0, 0, 0, 0 >> \o BigOfInt(dec.n * 256),
                                       Pow10(dec.e)) } })

DblNeg(x) == The({ IF v.mag = << >> THEN v ELSE [v EXCEPT !.neg = ~v.neg] : v \in {x} })

\* x + y for x and y of one sign, and of two
DblAddMag(x, y) == [neg |-> x.neg, mag |-> Round53(BigAdd(x.mag, y.mag))]
DblSubMag(x, y, c) ==
    IF c = 0 THEN DblZero
    ELSE IF c > 0 THEN [neg |-> x.neg, mag |-> Round53(BigSub(x.mag, y.mag))]
    ELSE [neg |-> y.neg, mag |-> Round53(BigSub(y.mag, x.mag))]

DblAdd(x, y) ==
    The({ IF v.neg = w.neg THEN DblAddMag(v, w)
          ELSE DblSubMag(v, w, BigCmp(v.mag, w.mag)) : v \in {x}, w \in {y} })

DblSub(x, y) == DblAdd(x, DblNeg(y))

\* k * x for an integer -2^15 < k < 2^15
DblMulInt(k, x) ==
    The({ IF n = 0 \/ v.mag = << >> THEN DblZero
          ELSE [neg |-> (v.neg # (n < 0)),
                mag |-> Round53(BigMulSmall(v.mag, IF n < 0 THEN -n ELSE n))] :
              n \in {k}, v \in {x} })

\* x / 2
DblHalf(x) == The({ [neg |-> v.neg, mag |-> BigDivSmall(v.mag, 2).q] : v \in {x} })

\* x < y
DblLt(x, y) ==
    The({ IF v.neg # w.neg THEN v.neg
          ELSE IF v.neg THEN BigCmp(v.mag, w.mag) > 0
          ELSE BigCmp(v.mag, w.mag) < 0 : v \in {x}, w \in {y} })

\* a div b for b > 0, by halving: a div 2b first
RECURSIVE BigQuot(_, _)
BigQuot(a, b) ==
    IF BigCmp(a, b) < 0 THEN 0
    ELSE The({ 2 * half + (IF BigCmp(BigSub(a, BigMulSmall(twice, half)), b) < 0
                           THEN 0 ELSE 1) :
                   twice \in { BigAdd(b, b) }, half \in { BigQuot(a, BigAdd(b, b)) } })

BigShiftLeft(a, bits) ==
    IF a = << >> THEN a
    ELSE [i \in 1..(bits \div 16) |-> 0] \o BigMulSmall(a, Pow2(bits % 16))

\* Math.floor(a / b) for a >= 0, b > 0: the quotient is rounded to binary64
\* before the floor, which lifts it to the next integer q + 1 when it is within
\* half an ulp below it
DblFloorDiv(a, b) ==
    The({ IF BigCmp(BigShiftLeft(BigSub(y, BigSub(x, BigMulSmall(y, q))),
                                 53 - (IntBitLen(q) - 1)), y) <= 0
          THEN q + 1 ELSE q :
              x \in { a.mag }, y \in { b.mag }, q \in { BigQuot(a.mag, b.mag) } })

(***************************************************************************)
(* StorageService: the settings record and its JSON text in localStorage.  *)
(***************************************************************************)
\* the keys of AppSettings in declaration order
SettingsKeys ==
    << "selectedPaperSizeIndex", "pictureWidth", "pictureHeight", "margins",
       "spacing", "allowWhitespace", "showCropMarks", "isDarkMode",
       "placeholderShape" >>

DEFAULT_SETTINGS ==
    [ selectedPaperSizeIndex |-> 0,
      pictureWidth           |-> 44,
      pictureHeight          |-> 44,
      margins                |-> 4,
      spacing                |-> 2,
      allowWhitespace        |-> FALSE,
      showCropMarks          |-> TRUE,
      isDarkMode             |-> FALSE,
      placeholderShape       |-> "rectangular" ]

\* A stored text is "null" (no item), "garbage" (not JSON) or the JSON text of
\* an object: [json |-> the sequence of its <<key, value>> members].
NoItem == [kind |-> "null"]
Garbage == [kind |-> "garbage"]
JsonText(members) == [kind |-> "json", members |-> members]

\* JSON.stringify of a settings record: its members in key order
JsonStringify(settings) ==
    JsonText([i \in 1..Len(SettingsKeys) |-> <<SettingsKeys[i], settings[SettingsKeys[i]]>>])

\* { ...base, ...parsed }: each member of the parsed object overwrites the
\* key it names, in order; keys of base that no member names keep their value
RECURSIVE SpreadOver(_, _)
SpreadOver(base, members) ==
    IF members = << >> THEN base
    ELSE LET m == Head(members)
         IN  SpreadOver([k \in DOMAIN base \cup {m[1]} |->
                            IF k = m[1] THEN m[2] ELSE base[k]],
                        Tail(members))

\* a load that ignores what is stored
loadDefaults(text) == DEFAULT_SETTINGS

\* loadSettings(): getItem, JSON.parse (throws on garbage), merge over defaults
loadSettings(text) ==
    IF text.kind = "json" THEN SpreadOver(DEFAULT_SETTINGS, text.members)
    ELSE DEFAULT_SETTINGS

\* saveSettings(): the text in localStorage afterwards; setItem throws (and the
\* catch swallows it) when the storage refuses writes
saveSettings(text, settings, writable) ==
    IF writable THEN JsonStringify(settings) ELSE text

(***************************************************************************)
(* AppComponent: state.                                                    *)
(***************************************************************************)
VARIABLES
    phase,                  \* "constructed" until ngOnInit has run, then "ready"
    selectedPaperSizeIndex,
    pictureWidth,
    pictureHeight,
    placeholderShape,
    margins,
    spacing,
    allowWhitespace,
    showCropMarks,
    hasLayoutError,
    errorMessage,           \* "" or the kind of the message: "width", "height", "no-space"
    rows,
    columns,
    placeholders,           \* sequence of PlaceholderState, placeholders[i+1].id = i
    offsetX,
    offsetY,
    dragState,
    pending,                \* image loads in flight (FileReader / Image callbacks)
    stored,                 \* localStorage text under SETTINGS_KEY
    writable                \* whether localStorage.setItem succeeds in this browser

config == << selectedPaperSizeIndex, pictureWidth, pictureHeight, placeholderShape,
             margins, spacing, showCropMarks >>
grid == << hasLayoutError, errorMessage, rows, columns, offsetX, offsetY >>
vars == << phase, config, allowWhitespace, grid, placeholders, dragState, pending,
           stored, writable >>

\* paperSizes, in cm
paperSizes ==
    << [width |-> Q(10),        height |-> Q(15)],
       [width |-> Q(13),        height |-> Q(18)],
       [width |-> Frac(148, 10), height |-> Q(21)],
       [width |-> Q(21),        height |-> Frac(297, 10)] >>

\* the effective picture height: the diameter for round placeholders
pictureHeightMm(pw, ph, shape) == IF shape = "round" THEN pw ELSE ph

(***************************************************************************)
(* calculateGrid.                                                          *)
(***************************************************************************)
\* (mutation of FitCount: Math.ceil for Math.floor)
FitCountCeil(available, picture, spacingMm) ==
    Floor(RDiv(RAdd(available, spacingMm), RAdd(picture, spacingMm))) + 1

\* (mutation of FitCount: the last item takes a trailing spacing too)
FitCountTrailing(available, picture, spacingMm) ==
    Floor(RDiv(available, RAdd(picture, spacingMm)))

\* floor((available + spacing) / (picture + spacing)), picture + spacing # 0
FitCount(available, picture, spacingMm) ==
    Floor(RDiv(RAdd(available, spacingMm), RAdd(picture, spacingMm)))

\* count * picture + (count - 1) * spacing
TotalGrid(count, picture, spacingMm) ==
    RAdd(RMul(Q(count), picture), RMul(Q(count - 1), spacingMm))

\* margin + (available - totalGrid) / 2
CenterOffset(marginMm, available, total) ==
    RAdd(marginMm, RDiv(RSub(available, total), Q(2)))

\* offset + index * (picture + spacing)
CellPosition(offset, index, picture, spacingMm) ==
    RAdd(offset, RMul(Q(index), RAdd(picture, spacingMm)))

\* index -> (row, col)
CellRow(index, cols) == index \div cols

\* (mutation of CellCol: the column taken as the row is)
CellColAsRow(index, cols) == index \div cols

CellCol(index, cols) == index % cols

NewPlaceholder(index, left, top) ==
    [ id              |-> index,
      imageData       |-> 0,          \* null; an image's data is its number >= 1
      offsetX         |-> Q(0),
      offsetY         |-> Q(0),
      scale           |-> Q(1),
      imageWidth      |-> 0,
      imageHeight     |-> 0,
      left            |-> left,
      top             |-> top,
      isDraggingImage |-> FALSE,      \* undefined in a fresh placeholder
      edits           |-> 0,          \* history: wheel steps and drag starts since it was empty
      wanted          |-> 0 ]         \* history: the data of the file dropped last, 0 after a clear

LayoutFailure(kind, oX, oY) ==
    [ hasLayoutError |-> TRUE, errorMessage |-> kind, rows |-> 0, columns |-> 0,
      placeholders |-> << >>, offsetX |-> oX, offsetY |-> oY ]

\* (mutation of LayoutCheck: the height is checked before the width)
LayoutCheckHeightFirst(paperWidthMm, paperHeightMm, pictureWidthMm, pictureHeightMmV, marginMm, spacingMm) ==
    LET minRequiredWidth == RAdd(pictureWidthMm, RMul(Q(2), marginMm))
        minRequiredHeight == RAdd(pictureHeightMmV, RMul(Q(2), marginMm))
        availableWidth == RSub(paperWidthMm, RMul(Q(2), marginMm))
        availableHeight == RSub(paperHeightMm, RMul(Q(2), marginMm))
    IN  IF RLt(paperHeightMm, minRequiredHeight) THEN "height"
        ELSE IF RLt(paperWidthMm, minRequiredWidth) THEN "width"
        ELSE IF \/ FitCount(availableWidth, pictureWidthMm, spacingMm) <= 0
                \/ FitCount(availableHeight, pictureHeightMmV, spacingMm) <= 0
             THEN "no-space"
        ELSE ""

\* which check of calculateGrid fails first: "" when none does
LayoutCheck(paperWidthMm, paperHeightMm, pictureWidthMm, pictureHeightMmV, marginMm, spacingMm) ==
    LET minRequiredWidth == RAdd(pictureWidthMm, RMul(Q(2), marginMm))
        minRequiredHeight == RAdd(pictureHeightMmV, RMul(Q(2), marginMm))
        availableWidth == RSub(paperWidthMm, RMul(Q(2), marginMm))
        availableHeight == RSub(paperHeightMm, RMul(Q(2), marginMm))
    IN  IF RLt(paperWidthMm, minRequiredWidth) THEN "width"
        ELSE IF RLt(paperHeightMm, minRequiredHeight) THEN "height"
        ELSE IF \/ FitCount(availableWidth, pictureWidthMm, spacingMm) <= 0
                \/ FitCount(availableHeight, pictureHeightMmV, spacingMm) <= 0
             THEN "no-space"
        ELSE ""

\* calculateGrid on the given settings; oX, oY are this.offsetX, this.offsetY
\* before the call (an early return leaves them alone)
calculateGrid(index, pw, ph, shape, m, s, oX, oY) ==
    LET paperWidthMm == RMul(paperSizes[index + 1].width, Q(10))
        paperHeightMm == RMul(paperSizes[index + 1].height, Q(10))
        pictureWidthMm == Q(pw)
        pictureHeightMmV == Q(pictureHeightMm(pw, ph, shape))
        marginMm == Q(m)
        spacingMm == Q(s)
        kind == LayoutCheck(paperWidthMm, paperHeightMm, pictureWidthMm,
                            pictureHeightMmV, marginMm, spacingMm)
        availableWidth == RSub(paperWidthMm, RMul(Q(2), marginMm))
        availableHeight == RSub(paperHeightMm, RMul(Q(2), marginMm))
        cols == FitCount(availableWidth, pictureWidthMm, spacingMm)
        rws == FitCount(availableHeight, pictureHeightMmV, spacingMm)
        gridOffsetX == CenterOffset(marginMm, availableWidth,
                                    TotalGrid(cols, pictureWidthMm, spacingMm))
        gridOffsetY == CenterOffset(marginMm, availableHeight,
                                    TotalGrid(rws, pictureHeightMmV, spacingMm))
    IN  IF kind # "" THEN LayoutFailure(kind, oX, oY)
        ELSE [ hasLayoutError |-> FALSE, errorMessage |-> "",
               rows |-> rws, columns |-> cols,
               offsetX |-> gridOffsetX, offsetY |-> gridOffsetY,
               placeholders |->
                   [ i \in 1..(rws * cols) |->
                       NewPlaceholder(i - 1,
                           CellPosition(gridOffsetX, CellCol(i - 1, cols), pictureWidthMm, spacingMm),
                           CellPosition(gridOffsetY, CellRow(i - 1, cols), pictureHeightMmV, spacingMm)) ] ]

\* the assignments calculateGrid makes to the component
ApplyGrid(g) ==
    /\ hasLayoutError' = g.hasLayoutError
    /\ errorMessage' = g.errorMessage
    /\ rows' = g.rows
    /\ columns' = g.columns
    /\ offsetX' = g.offsetX
    /\ offsetY' = g.offsetY
    /\ placeholders' = g.placeholders

\* the record AppComponent.saveSettings passes to the storage service
\* (isDarkMode: the dark-mode preference is outside this model and keeps its
\* constructed value)
CurrentSettings(index, pw, ph, m, s, aw, crop, shape) ==
    [ selectedPaperSizeIndex |-> index,
      pictureWidth           |-> pw,
      pictureHeight          |-> ph,
      margins                |-> m,
      spacing                |-> s,
      allowWhitespace        |-> aw,
      showCropMarks          |-> crop,
      isDarkMode             |-> FALSE,
      placeholderShape       |-> shape ]

NoDrag ==
    [ active |-> FALSE, placeholderId |-> -1, startX |-> 0, startY |-> 0,
      startOffsetX |-> Q(0), startOffsetY |-> Q(0),
      events |-> 0 ]                  \* history: handlers run since the drag began

\* a handler other than onImageMouseDown and onMouseUp runs: it leaves
\* dragState alone (the count of the handlers run during the drag apart)
DragBudget == ~dragState.active \/ dragState.events < MaxDragEvents
DragKept ==
    dragState' = IF dragState.active THEN [dragState EXCEPT !.events = @ + 1] ELSE dragState

\* a grid recalculation replaces every placeholder object: the loads in flight
\* keep the object they were started on, which is no longer in the grid; what
\* their callbacks write there is never seen, so which load it was is not kept
DetachedLoad == [id |-> -1, img |-> [data |-> 0, width |-> 0, height |-> 0], attached |-> FALSE]
Detach(loads) == IF loads = {} THEN {} ELSE {DetachedLoad}

(***************************************************************************)
(* Inputs.                                                                  *)
(***************************************************************************)
PaperIndexes == 0..(Len(paperSizes) - 1)
Shapes == {"rectangular", "round"}

\* the papers selected while images are worked on
PaperChoices == {0}

\* the values typed into the number fields while images are worked on
PictureWidths == {44, 96}
PictureHeights == {30, 60}
MarginValues == {4}
SpacingValues == {2}

\* the values typed into the number fields when only the layout is looked at:
\* any number can be typed, a negative spacing included (picture + spacing is
\* never 0 here: the quotient of calculateGrid would be infinite)
WideWidths == {44, 140}
WideHeights == {60, 200}
WideMargins == {4, 28, 30}
WideSpacings == {-50, -4, 2}

\* what localStorage holds when the page is first opened
InitStored ==
    { NoItem,
      Garbage,
      JsonText(<< <<"pictureWidth", 96>>, <<"theme", "x">> >>),
      JsonStringify(CurrentSettings(1, 44, 60, 4, 2, TRUE, FALSE, "round")) }

(***************************************************************************)
(* Construction, ngOnInit, page reload.                                     *)
(***************************************************************************)
\* the field initialisers of AppComponent
Constructed ==
    /\ phase = "constructed"
    /\ selectedPaperSizeIndex = 0
    /\ pictureWidth = 44
    /\ pictureHeight = 44
    /\ placeholderShape = "rectangular"
    /\ margins = 4
    /\ spacing = 2
    /\ allowWhitespace = FALSE
    /\ showCropMarks = TRUE
    /\ hasLayoutError = FALSE
    /\ errorMessage = ""
    /\ rows = 0
    /\ columns = 0
    /\ placeholders = << >>
    /\ offsetX = Q(0)
    /\ offsetY = Q(0)
    /\ dragState = NoDrag
    /\ pending = {}

Init ==
    /\ Constructed
    /\ stored \in InitStored
    /\ writable \in BOOLEAN

ngOnInit ==
    /\ phase = "constructed"
    /\ \E settings \in { loadSettings(stored) } :
        \E g \in { calculateGrid(settings.selectedPaperSizeIndex, settings.pictureWidth,
                                 settings.pictureHeight, settings.placeholderShape,
                                 settings.margins, settings.spacing, offsetX, offsetY) } :
           /\ selectedPaperSizeIndex' = settings.selectedPaperSizeIndex
           /\ pictureWidth' = settings.pictureWidth
           /\ pictureHeight' = settings.pictureHeight
           /\ margins' = settings.margins
           /\ spacing' = settings.spacing
           /\ allowWhitespace' = settings.allowWhitespace
           /\ showCropMarks' = settings.showCropMarks
           /\ placeholderShape' = settings.placeholderShape
           /\ ApplyGrid(g)
    /\ phase' = "ready"
    /\ pending' = Detach(pending)
    /\ UNCHANGED << dragState, stored, writable >>

\* the page is loaded again: a new component, the same localStorage; the
\* callbacks of the old page are gone
Reload ==
    /\ phase = "ready"
    /\ phase' = "constructed"
    /\ selectedPaperSizeIndex' = 0
    /\ pictureWidth' = 44
    /\ pictureHeight' = 44
    /\ placeholderShape' = "rectangular"
    /\ margins' = 4
    /\ spacing' = 2
    /\ allowWhitespace' = FALSE
    /\ showCropMarks' = TRUE
    /\ hasLayoutError' = FALSE
    /\ errorMessage' = ""
    /\ rows' = 0
    /\ columns' = 0
    /\ placeholders' = << >>
    /\ offsetX' = Q(0)
    /\ offsetY' = Q(0)
    /\ dragState' = NoDrag
    /\ pending' = {}
    /\ UNCHANGED << stored, writable >>

(***************************************************************************)
(* Layout handlers.                                                         *)
(***************************************************************************)
\* new settings, then calculateGrid(), then saveSettings()
Reconfigure(index, pw, ph, shape, m, s, aw, crop) ==
    /\ selectedPaperSizeIndex' = index
    /\ pictureWidth' = pw
    /\ pictureHeight' = ph
    /\ placeholderShape' = shape
    /\ margins' = m
    /\ spacing' = s
    /\ allowWhitespace' = aw
    /\ showCropMarks' = crop
    /\ \E g \in { calculateGrid(index, pw, ph, shape, m, s, offsetX, offsetY) } : ApplyGrid(g)
    /\ pending' = Detach(pending)
    /\ stored' = saveSettings(stored, CurrentSettings(index, pw, ph, m, s, aw, crop, shape), writable)
    /\ DragBudget
    /\ DragKept
    /\ UNCHANGED << phase, writable >>

PaperSizeChange(I) ==
    /\ phase = "ready"
    /\ \E index \in I :
          Reconfigure(index, pictureWidth, pictureHeight, placeholderShape, margins,
                      spacing, allowWhitespace, showCropMarks)

onPaperSizeChange == PaperSizeChange(PaperChoices)

onPaperSizeChangeWide == PaperSizeChange(PaperIndexes)

\* one field of the form is changed (ngModel), then onParameterChange() runs
ParameterChange(W, H, M, S) ==
    /\ phase = "ready"
    /\ \/ \E w \in W :
             Reconfigure(selectedPaperSizeIndex, w, pictureHeight, placeholderShape,
                         margins, spacing, allowWhitespace, showCropMarks)
       \/ \E h \in H :
             Reconfigure(selectedPaperSizeIndex, pictureWidth, h, placeholderShape,
                         margins, spacing, allowWhitespace, showCropMarks)
       \/ \E m \in M :
             Reconfigure(selectedPaperSizeIndex, pictureWidth, pictureHeight, placeholderShape,
                         m, spacing, allowWhitespace, showCropMarks)
       \/ \E s \in S :
             Reconfigure(selectedPaperSizeIndex, pictureWidth, pictureHeight, placeholderShape,
                         margins, s, allowWhitespace, showCropMarks)
       \/ \E shape \in Shapes :
             Reconfigure(selectedPaperSizeIndex, pictureWidth, pictureHeight, shape,
                         margins, spacing, allowWhitespace, showCropMarks)

onParameterChange == ParameterChange(PictureWidths, PictureHeights, MarginValues, SpacingValues)

onParameterChangeWide == ParameterChange(WideWidths, WideHeights, WideMargins, WideSpacings)

restoreSettings ==
    /\ phase = "ready"
    /\ Reconfigure(0, 44, 44, "rectangular", 4, 2, FALSE, TRUE)

(***************************************************************************)
(* The layout alone: every handler that calls calculateGrid, over the wide  *)
(* inputs.                                                                  *)
(***************************************************************************)
NextGrid ==
    \/ ngOnInit
    \/ Reload
    \/ onPaperSizeChangeWide
    \/ onParameterChangeWide
    \/ restoreSettings

\* the browser keeps what is saved
InitGrid ==
    /\ Constructed
    /\ stored \in InitStored
    /\ writable = TRUE

SpecGrid == InitGrid /\ [][NextGrid]_vars

(***************************************************************************)
(* The layout when decimal fractions are typed: calculateGrid in binary64. *)
(***************************************************************************)
\* the number typed as the decimal text n / 10^e
Dec(n, e) == [n |-> n, e |-> e]

\* paperSizes as written in the source, in cm
paperSizesCm ==
    << [width |-> Dec(10, 0),  height |-> Dec(15, 0)],
       [width |-> Dec(13, 0),  height |-> Dec(18, 0)],
       [width |-> Dec(148, 1), height |-> Dec(21, 0)],
       [width |-> Dec(21, 0),  height |-> Dec(297, 1)] >>

\* (mutation of LayoutCheck64: the third check left out)
LayoutCheckTwoClasses(paperWidthMm, paperHeightMm, pictureWidthMm, pictureHeightMmV, marginMm, spacingMm) ==
    IF DblLt(paperWidthMm, DblAdd(pictureWidthMm, DblMulInt(2, marginMm))) THEN "width"
    ELSE IF DblLt(paperHeightMm, DblAdd(pictureHeightMmV, DblMulInt(2, marginMm))) THEN "height"
    ELSE ""

\* Math.floor((available + spacing) / (picture + spacing))
Count64(available, picture, spacingMm) ==
    DblFloorDiv(DblAdd(available, spacingMm), DblAdd(picture, spacingMm))

\* which check of calculateGrid fails first: "" when none does
LayoutCheck64(paperWidthMm, paperHeightMm, pictureWidthMm, pictureHeightMmV, marginMm, spacingMm) ==
    IF DblLt(paperWidthMm, DblAdd(pictureWidthMm, DblMulInt(2, marginMm))) THEN "width"
    ELSE IF DblLt(paperHeightMm, DblAdd(pictureHeightMmV, DblMulInt(2, marginMm))) THEN "height"
    ELSE IF \/ Count64(DblSub(paperWidthMm, DblMulInt(2, marginMm)),
                       pictureWidthMm, spacingMm) <= 0
            \/ Count64(DblSub(paperHeightMm, DblMulInt(2, marginMm)),
                       pictureHeightMmV, spacingMm) <= 0
         THEN "no-space"
    ELSE ""

\* count * picture + (count - 1) * spacing
TotalGrid64(count, picture, spacingMm) ==
    DblAdd(DblMulInt(count, picture), DblMulInt(count - 1, spacingMm))

\* margin + (available - totalGrid) / 2
CenterOffset64(marginMm, available, total) ==
    DblAdd(marginMm, DblHalf(DblSub(available, total)))

\* offset + index * (picture + spacing)
CellPosition64(offset, index, picture, spacingMm) ==
    DblAdd(offset, DblMulInt(index, DblAdd(picture, spacingMm)))

\* the grid of cols x rws cells from the offsets on
Cells64(cols, rws, gridOffsetX, gridOffsetY, pictureWidthMm, pictureHeightMmV, spacingMm) ==
    The({ [ hasLayoutError |-> FALSE, errorMessage |-> "",
            rows |-> rws, columns |-> cols,
            offsetX |-> gX, offsetY |-> gY,
            placeholders |->
                [ i \in 1..(rws * cols) |->
                    NewPlaceholder(i - 1,
                        CellPosition64(gX, CellCol(i - 1, cols), pictureWidthMm, spacingMm),
                        CellPosition64(gY, CellRow(i - 1, cols), pictureHeightMmV, spacingMm)) ] ] :
              gX \in { gridOffsetX }, gY \in { gridOffsetY } })

\* the counts, the centering and the cells of a configuration that passed
Placed64(availableWidth, availableHeight, pictureWidthMm, pictureHeightMmV, marginMm, spacingMm) ==
    The({ Cells64(cols, rws,
                  CenterOffset64(marginMm, availableWidth,
                                 TotalGrid64(cols, pictureWidthMm, spacingMm)),
                  CenterOffset64(marginMm, availableHeight,
                                 TotalGrid64(rws, pictureHeightMmV, spacingMm)),
                  pictureWidthMm, pictureHeightMmV, spacingMm) :
              cols \in { Count64(availableWidth, pictureWidthMm, spacingMm) },
              rws \in { Count64(availableHeight, pictureHeightMmV, spacingMm) } })

\* calculateGrid on binary64 values
Grid64(paperWidthMm, paperHeightMm, pictureWidthMm, pictureHeightMmV, marginMm, spacingMm, oX, oY) ==
    The({ IF kind # "" THEN LayoutFailure(kind, oX, oY)
          ELSE The({ Placed64(availableWidth, availableHeight, pictureWidthMm,
                              pictureHeightMmV, marginMm, spacingMm) :
                         availableWidth \in { DblSub(paperWidthMm, DblMulInt(2, marginMm)) },
                         availableHeight \in { DblSub(paperHeightMm, DblMulInt(2, marginMm)) } }) :
              kind \in { LayoutCheck64(paperWidthMm, paperHeightMm, pictureWidthMm,
                                       pictureHeightMmV, marginMm, spacingMm) } })

\* calculateGrid on settings typed as decimal texts (each 0 or at least 1)
calculateGrid64(index, pw, ph, shape, m, s, oX, oY) ==
    The({ Grid64(paperWidthMm, paperHeightMm, pictureWidthMm, pictureHeightMmV,
                 marginMm, spacingMm, oX, oY) :
              paperWidthMm \in { DblMulInt(10, DecToDbl(paperSizesCm[index + 1].width)) },
              paperHeightMm \in { DblMulInt(10, DecToDbl(paperSizesCm[index + 1].height)) },
              pictureWidthMm \in { DecToDbl(pw) },
              pictureHeightMmV \in { DecToDbl(pictureHeightMm(pw, ph, shape)) },
              marginMm \in { DecToDbl(m) },
              spacingMm \in { DecToDbl(s) } })

\* the values typed into the number fields, fractions of a millimetre included
DecWidths == { Dec(44, 0), Dec(7504, 2), Dec(2496, 2) }
DecHeights == { Dec(44, 0), Dec(605, 1) }
DecMargins == { Dec(4, 0), Dec(1248, 2) }
DecSpacings == { Dec(0, 0), Dec(1, 0) }

\* the papers selected then: 10 x 15 and 14.8 x 21
DecPapers == { 0, 2 }

\* a settings record of whole numbers with its numbers as decimal texts
DecimalSettings(settings) ==
    [settings EXCEPT !.pictureWidth = Dec(@, 0), !.pictureHeight = Dec(@, 0),
                     !.margins = Dec(@, 0), !.spacing = Dec(@, 0)]

\* the field initialisers of AppComponent, the numbers as decimal texts
InitDecimal ==
    /\ phase = "constructed"
    /\ selectedPaperSizeIndex = 0
    /\ pictureWidth = Dec(44, 0)
    /\ pictureHeight = Dec(44, 0)
    /\ placeholderShape = "rectangular"
    /\ margins = Dec(4, 0)
    /\ spacing = Dec(2, 0)
    /\ allowWhitespace = FALSE
    /\ showCropMarks = TRUE
    /\ hasLayoutError = FALSE
    /\ errorMessage = ""
    /\ rows = 0
    /\ columns = 0
    /\ placeholders = << >>
    /\ offsetX = DblZero
    /\ offsetY = DblZero
    /\ dragState = NoDrag
    /\ pending = {}
    /\ stored = NoItem
    /\ writable = TRUE

\* new settings, then calculateGrid(), then saveSettings()
Reconfigure64(index, pw, ph, shape, m, s, aw, crop) ==
    /\ selectedPaperSizeIndex' = index
    /\ pictureWidth' = pw
    /\ pictureHeight' = ph
    /\ placeholderShape' = shape
    /\ margins' = m
    /\ spacing' = s
    /\ allowWhitespace' = aw
    /\ showCropMarks' = crop
    /\ \E g \in { calculateGrid64(index, pw, ph, shape, m, s, offsetX, offsetY) } : ApplyGrid(g)
    /\ pending' = Detach(pending)
    /\ dragState' = dragState

\* ngOnInit when nothing is stored
ngOnInit64 ==
    /\ phase = "constructed"
    /\ \E settings \in { DecimalSettings(loadSettings(stored)) } :
          Reconfigure64(settings.selectedPaperSizeIndex, settings.pictureWidth,
                        settings.pictureHeight, settings.placeholderShape, settings.margins,
                        settings.spacing, settings.allowWhitespace, settings.showCropMarks)
    /\ phase' = "ready"
    /\ UNCHANGED << stored, writable >>

\* a handler that changes settings: calculateGrid(), then saveSettings()
Changed64(index, pw, ph, shape, m, s, aw, crop) ==
    /\ phase = "ready"
    /\ Reconfigure64(index, pw, ph, shape, m, s, aw, crop)
    /\ stored' = saveSettings(stored, CurrentSettings(index, pw, ph, m, s, aw, crop, shape), writable)
    /\ UNCHANGED << phase, writable >>

onPaperSizeChange64 ==
    \E index \in DecPapers :
        Changed64(index, pictureWidth, pictureHeight, placeholderShape, margins,
                  spacing, allowWhitespace, showCropMarks)

\* one field of the form is changed (ngModel), then onParameterChange() runs
onParameterChange64 ==
    \/ \E w \in DecWidths :
          Changed64(selectedPaperSizeIndex, w, pictureHeight, placeholderShape,
                    margins, spacing, allowWhitespace, showCropMarks)
    \/ \E h \in DecHeights :
          Changed64(selectedPaperSizeIndex, pictureWidth, h, placeholderShape,
                    margins, spacing, allowWhitespace, showCropMarks)
    \/ \E m \in DecMargins :
          Changed64(selectedPaperSizeIndex, pictureWidth, pictureHeight, placeholderShape,
                    m, spacing, allowWhitespace, showCropMarks)
    \/ \E s \in DecSpacings :
          Changed64(selectedPaperSizeIndex, pictureWidth, pictureHeight, placeholderShape,
                    margins, s, allowWhitespace, showCropMarks)
    \/ \E shape \in Shapes :
          Changed64(selectedPaperSizeIndex, pictureWidth, pictureHeight, shape,
                    margins, spacing, allowWhitespace, showCropMarks)

restoreSettings64 ==
    Changed64(0, Dec(44, 0), Dec(44, 0), "rectangular", Dec(4, 0), Dec(2, 0), FALSE, TRUE)

NextDecimal ==
    \/ ngOnInit64
    \/ onPaperSizeChange64
    \/ onParameterChange64
    \/ restoreSettings64

SpecDecimal == InitDecimal /\ [][NextDecimal]_vars

(***************************************************************************)
(* Image fit, pan and zoom.                                                 *)
(***************************************************************************)
\* 96 / 25.4 CSS pixels per mm
mmToCssPx == Frac(960, 254)

\* the images a user drops: data (a number >= 1), width and height in pixels
Images ==
    { [data |-> 1, width |-> 200, height |-> 100],
      [data |-> 2, width |-> 100, height |-> 200] }

\* pointer positions of wheel events, relative to the placeholder, in pixels
Points == { <<0, 0>>, <<100, 50>> }

\* pointer positions of mousedown and of mousemove events, in pixels
DownPoints == { <<100, 50>> }
MovePoints == { <<0, 0>>, <<100, 50>>, <<200, 100>> }

\* placeholderWidthPx
WidthPx(pw) == RMul(Q(pw), mmToCssPx)

\* placeholderHeightPx of fitImageToPlaceholder and calculateMinimumScale
HeightPx(pw, ph, shape) == RMul(Q(IF shape = "round" THEN pw ELSE ph), mmToCssPx)

\* placeholderHeightPx of constrainOffset
ConstrainHeightPx(pw, ph, shape) == RMul(Q(ph), mmToCssPx)

\* the scale of the other mode
FitScaleSwapped(scaleX, scaleY, aw) ==
    IF aw THEN RMax(scaleX, scaleY) ELSE RMin(scaleX, scaleY)

\* the scale of fitImageToPlaceholder
FitScale(scaleX, scaleY, aw) ==
    IF aw THEN RMin(scaleX, scaleY) ELSE RMax(scaleX, scaleY)

\* a fit that sets the scale and leaves the offsets where they are
fitScaleOnly(p, pw, ph, shape, aw) ==
    IF p.imageWidth = 0 \/ p.imageHeight = 0 THEN p
    ELSE [p EXCEPT !.scale = FitScale(RDiv(WidthPx(pw), Q(p.imageWidth)),
                                      RDiv(HeightPx(pw, ph, shape), Q(p.imageHeight)), aw)]

\* fitImageToPlaceholder: the placeholder afterwards
fitImageToPlaceholder(p, pw, ph, shape, aw) ==
    IF p.imageWidth = 0 \/ p.imageHeight = 0 THEN p
    ELSE LET placeholderWidthPx == WidthPx(pw)
             placeholderHeightPx == HeightPx(pw, ph, shape)
             scaleX == RDiv(placeholderWidthPx, Q(p.imageWidth))
             scaleY == RDiv(placeholderHeightPx, Q(p.imageHeight))
             fitScale == FitScale(scaleX, scaleY, aw)
             scaledImageWidth == RMul(Q(p.imageWidth), fitScale)
             scaledImageHeight == RMul(Q(p.imageHeight), fitScale)
         IN  [p EXCEPT !.offsetX = RDiv(RSub(placeholderWidthPx, scaledImageWidth), Q(2)),
                       !.offsetY = RDiv(RSub(placeholderHeightPx, scaledImageHeight), Q(2)),
                       !.scale = fitScale]

\* one axis of constrainOffset
ConstrainAxis(offset, scaledSize, placeholderSize) ==
    IF RLe(scaledSize, placeholderSize)
    THEN RDiv(RSub(placeholderSize, scaledSize), Q(2))
    ELSE RMax(RSub(placeholderSize, scaledSize), RMin(Q(0), offset))

constrainOffset(offset, p, axis, pw, ph, shape) ==
    LET placeholderWidthPx == WidthPx(pw)
        placeholderHeightPx == ConstrainHeightPx(pw, ph, shape)
        scaledImageWidth == RMul(Q(p.imageWidth), p.scale)
        scaledImageHeight == RMul(Q(p.imageHeight), p.scale)
    IN  IF axis = "x"
        THEN ConstrainAxis(offset, scaledImageWidth, placeholderWidthPx)
        ELSE ConstrainAxis(offset, scaledImageHeight, placeholderHeightPx)

\* the smaller of the two scales: the image covers one axis only
calculateContainScale(p, pw, ph, shape) ==
    RMin(RDiv(WidthPx(pw), Q(p.imageWidth)),
         RDiv(HeightPx(pw, ph, shape), Q(p.imageHeight)))

\* calculateMinimumScale, for a placeholder that holds an image
calculateMinimumScale(p, pw, ph, shape) ==
    RMax(RDiv(WidthPx(pw), Q(p.imageWidth)),
         RDiv(HeightPx(pw, ph, shape), Q(p.imageHeight)))

\* 1.1 for zoom in, 1 / 1.1 for zoom out
ZoomFactor(zoomIn) == IF zoomIn THEN Frac(11, 10) ELSE Frac(10, 11)

\* the scale onWheel writes
WheelScale(p, zoomIn, pw, ph, shape, aw) ==
    LET newScale == RMul(p.scale, ZoomFactor(zoomIn))
    IN  IF aw THEN newScale
        ELSE RMax(calculateMinimumScale(p, pw, ph, shape), newScale)

\* the offset of a zoom about the top left corner of the placeholder
OriginOffset(mouse, offset, oldScale, newScale) ==
    RMul(RDiv(offset, oldScale), newScale)

\* the offset that keeps the image point under the mouse where it is
AnchorOffset(mouse, offset, oldScale, newScale) ==
    RSub(Q(mouse), RMul(RDiv(RSub(Q(mouse), offset), oldScale), newScale))

\* onWheel on a placeholder that holds an image: the placeholder afterwards
WheelResult(p, mouseX, mouseY, zoomIn, pw, ph, shape, aw) ==
    LET newScale == WheelScale(p, zoomIn, pw, ph, shape, aw)
        newOffsetX == AnchorOffset(mouseX, p.offsetX, p.scale, newScale)
        newOffsetY == AnchorOffset(mouseY, p.offsetY, p.scale, newScale)
        scaled == [p EXCEPT !.scale = newScale]
    IN  [scaled EXCEPT
            !.offsetX = IF aw THEN newOffsetX
                        ELSE constrainOffset(newOffsetX, scaled, "x", pw, ph, shape),
            !.offsetY = IF aw THEN newOffsetY
                        ELSE constrainOffset(newOffsetY, scaled, "y", pw, ph, shape),
            !.edits = p.edits + 1]

\* onMouseMove on the dragged placeholder: the placeholder afterwards
MoveResult(p, drag, clientX, clientY, pw, ph, shape, aw) ==
    LET newOffsetX == RAdd(drag.startOffsetX, Q(clientX - drag.startX))
        newOffsetY == RAdd(drag.startOffsetY, Q(clientY - drag.startY))
    IN  [p EXCEPT
            !.offsetX = IF aw THEN newOffsetX
                        ELSE constrainOffset(newOffsetX, p, "x", pw, ph, shape),
            !.offsetY = IF aw THEN newOffsetY
                        ELSE constrainOffset(newOffsetY, p, "y", pw, ph, shape)]

\* clearImage, and the body of clearAllPictures
Cleared(p) ==
    [p EXCEPT !.imageData = 0, !.offsetX = Q(0), !.offsetY = Q(0), !.scale = Q(1),
              !.imageWidth = 0, !.imageHeight = 0, !.edits = 0, !.wanted = 0]

\* the callback of loadImage on the placeholder it was started on
Loaded(p, img, pw, ph, shape, aw) ==
    fitImageToPlaceholder(
        [p EXCEPT !.imageData = img.data, !.imageWidth = img.width,
                  !.imageHeight = img.height],
        pw, ph, shape, aw)

\* the ids of the placeholders that receive user events
Touched == { i \in 0..(MaxTouched - 1) : i < Len(placeholders) }

\* the same when two placeholders next to each other are worked on
TouchedPair == { i \in 0..MaxTouched : i < Len(placeholders) }

layout == << config, grid >>

\* onDrop of an image file on one of the placeholders ids: loadImage starts
\* reading it
DropOn(ids) ==
    /\ phase = "ready"
    /\ Cardinality(pending) < MaxPending
    /\ \E id \in ids, img \in Images :
          /\ pending' = pending \cup { [id |-> id, img |-> img, attached |-> TRUE] }
          /\ placeholders' = [placeholders EXCEPT ![id + 1].wanted = img.data]
    /\ DragBudget
    /\ DragKept
    /\ UNCHANGED << phase, layout, allowWhitespace, stored, writable >>

onDrop == DropOn(Touched)

\* reader.onload and img.onload of one load in flight
loadImage ==
    /\ phase = "ready"
    /\ \E l \in pending :
          /\ pending' = pending \ {l}
          /\ placeholders' =
                IF l.attached
                THEN [placeholders EXCEPT ![l.id + 1] =
                         Loaded(@, l.img, pictureWidth, pictureHeight, placeholderShape,
                                allowWhitespace)]
                ELSE placeholders
    /\ DragBudget
    /\ DragKept
    /\ UNCHANGED << phase, layout, allowWhitespace, stored, writable >>

ClearOn(ids) ==
    /\ phase = "ready"
    /\ \E id \in ids :
          /\ placeholders' = [placeholders EXCEPT ![id + 1] = Cleared(@)]
    /\ DragBudget
    /\ DragKept
    /\ UNCHANGED << phase, layout, allowWhitespace, pending, stored, writable >>

clearImage == ClearOn(Touched)

resetImage ==
    /\ phase = "ready"
    /\ \E id \in Touched :
          /\ placeholders[id + 1].imageData # 0
          /\ placeholders[id + 1].imageWidth # 0
          /\ placeholders[id + 1].imageHeight # 0
          /\ placeholders' = [placeholders EXCEPT ![id + 1] =
                fitImageToPlaceholder(@, pictureWidth, pictureHeight, placeholderShape,
                                      allowWhitespace)]
    /\ DragBudget
    /\ DragKept
    /\ UNCHANGED << phase, layout, allowWhitespace, pending, stored, writable >>

clearAllPictures ==
    /\ phase = "ready"
    /\ placeholders' = [k \in 1..Len(placeholders) |-> Cleared(placeholders[k])]
    /\ DragBudget
    /\ DragKept
    /\ UNCHANGED << phase, layout, allowWhitespace, pending, stored, writable >>

MouseDownOn(ids) ==
    /\ phase = "ready"
    /\ \E id \in ids, pt \in DownPoints :
          /\ placeholders[id + 1].imageData # 0
          /\ placeholders[id + 1].edits < MaxEdits
          /\ dragState' = [ active |-> TRUE, placeholderId |-> id,
                            startX |-> pt[1], startY |-> pt[2],
                            startOffsetX |-> placeholders[id + 1].offsetX,
                            startOffsetY |-> placeholders[id + 1].offsetY,
                            events |-> 0 ]
          /\ placeholders' = [placeholders EXCEPT ![id + 1].isDraggingImage = TRUE,
                                                  ![id + 1].edits = @ + 1]
    /\ UNCHANGED << phase, layout, allowWhitespace, pending, stored, writable >>

onImageMouseDown == MouseDownOn(Touched)

onMouseMove ==
    /\ phase = "ready"
    /\ dragState.active
    /\ dragState.placeholderId # -1
    /\ dragState.placeholderId < Len(placeholders)
    /\ \E pt \in MovePoints :
          /\ placeholders' = [placeholders EXCEPT ![dragState.placeholderId + 1] =
                MoveResult(@, dragState, pt[1], pt[2], pictureWidth, pictureHeight,
                           placeholderShape, allowWhitespace)]
    /\ DragBudget
    /\ DragKept
    /\ UNCHANGED << phase, layout, allowWhitespace, pending, stored, writable >>

onMouseUp ==
    /\ phase = "ready"
    /\ placeholders' =
          IF /\ dragState.active
             /\ dragState.placeholderId # -1
             /\ dragState.placeholderId < Len(placeholders)
          THEN [placeholders EXCEPT ![dragState.placeholderId + 1].isDraggingImage = FALSE]
          ELSE placeholders
    /\ dragState' = NoDrag
    /\ UNCHANGED << phase, layout, allowWhitespace, pending, stored, writable >>

\* onWheel on placeholder id with the pointer at pt
onWheelAt(id, pt, zoomIn, limit) ==
    /\ phase = "ready"
    /\ placeholders[id + 1].imageData # 0
    /\ placeholders[id + 1].edits < limit
    /\ placeholders' = [placeholders EXCEPT ![id + 1] =
          WheelResult(@, pt[1], pt[2], zoomIn, pictureWidth, pictureHeight,
                      placeholderShape, allowWhitespace)]
    /\ DragBudget
    /\ DragKept
    /\ UNCHANGED << phase, layout, allowWhitespace, pending, stored, writable >>

onWheel ==
    \E id \in Touched, pt \in Points, zoomIn \in BOOLEAN : onWheelAt(id, pt, zoomIn, MaxEdits)

onWheelDeep ==
    \E id \in Touched, pt \in Points, zoomIn \in BOOLEAN : onWheelAt(id, pt, zoomIn, MaxZoomSteps)

\* the checkbox is toggled (ngModel), then onAllowWhitespaceChange() runs
onAllowWhitespaceChange ==
    /\ phase = "ready"
    /\ allowWhitespace' = ~allowWhitespace
    /\ placeholders' =
          [k \in 1..Len(placeholders) |->
              IF /\ placeholders[k].imageData # 0
                 /\ placeholders[k].imageWidth # 0
                 /\ placeholders[k].imageHeight # 0
              THEN fitImageToPlaceholder(placeholders[k], pictureWidth, pictureHeight,
                                         placeholderShape, ~allowWhitespace)
              ELSE placeholders[k]]
    /\ stored' = saveSettings(stored,
                     CurrentSettings(selectedPaperSizeIndex, pictureWidth, pictureHeight,
                                     margins, spacing, ~allowWhitespace, showCropMarks,
                                     placeholderShape),
                     writable)
    /\ DragBudget
    /\ DragKept
    /\ UNCHANGED << phase, layout, pending, writable >>

Next ==
    \/ ngOnInit
    \/ Reload
    \/ onPaperSizeChange
    \/ onParameterChange
    \/ restoreSettings
    \/ onAllowWhitespaceChange
    \/ onDrop
    \/ loadImage
    \/ clearImage
    \/ resetImage
    \/ clearAllPictures
    \/ onImageMouseDown
    \/ onMouseMove
    \/ onMouseUp
    \/ onWheel

\* a browser that keeps what is saved, opened for the first time
InitSpec ==
    /\ Constructed
    /\ stored = NoItem
    /\ writable = TRUE

Spec == InitSpec /\ [][Next]_vars

\* fit and zoom with nothing dragged: the wheel turned up to MaxZoomSteps times
NextZoom ==
    \/ ngOnInit
    \/ Reload
    \/ onPaperSizeChange
    \/ onParameterChange
    \/ restoreSettings
    \/ onAllowWhitespaceChange
    \/ onDrop
    \/ loadImage
    \/ clearImage
    \/ resetImage
    \/ clearAllPictures
    \/ onWheelDeep

SpecZoom == InitSpec /\ [][NextZoom]_vars

\* the settings alone: what is stored when the page is opened is anything of
\* InitStored, and the browser may refuse every write
NextStorage ==
    \/ ngOnInit
    \/ Reload
    \/ onPaperSizeChange
    \/ onParameterChange
    \/ restoreSettings
    \/ onAllowWhitespaceChange

SpecStorage == Init /\ [][NextStorage]_vars

(***************************************************************************)
(* Dragging with two placeholders at hand: drops, loads, clears, the mouse  *)
(* handlers and a grid recalculation.                                       *)
(***************************************************************************)
onDropEither == DropOn(TouchedPair)

clearImageEither == ClearOn(TouchedPair)

onImageMouseDownEither == MouseDownOn(TouchedPair)

NextDrag ==
    \/ ngOnInit
    \/ restoreSettings
    \/ onDropEither
    \/ loadImage
    \/ clearImageEither
    \/ clearAllPictures
    \/ onImageMouseDownEither
    \/ onMouseMove
    \/ onMouseUp

SpecDrag == InitSpec /\ [][NextDrag]_vars

(***************************************************************************)
(* Layout claims.                                                           *)
(***************************************************************************)
\* the paper of the current settings in mm and the effective picture height
PaperW == RMul(paperSizes[selectedPaperSizeIndex + 1].width, Q(10))
PaperH == RMul(paperSizes[selectedPaperSizeIndex + 1].height, Q(10))
EffectiveHeight == IF placeholderShape = "round" THEN pictureWidth ELSE pictureHeight

GridShown == phase = "ready" /\ ~hasLayoutError

\* the rectangles of placeholders i and j do not overlap
Disjoint(p, q) ==
    \/ RLe(RAdd(p.left, Q(pictureWidth)), q.left)
    \/ RLe(RAdd(q.left, Q(pictureWidth)), p.left)
    \/ RLe(RAdd(p.top, Q(EffectiveHeight)), q.top)
    \/ RLe(RAdd(q.top, Q(EffectiveHeight)), p.top)

\* the rectangle of placeholder p lies inside the margin-reduced paper
InsideMargins(p) ==
    /\ RLe(Q(margins), p.left)
    /\ RLe(RAdd(p.left, Q(pictureWidth)), RSub(PaperW, Q(margins)))
    /\ RLe(Q(margins), p.top)
    /\ RLe(RAdd(p.top, Q(EffectiveHeight)), RSub(PaperH, Q(margins)))

NoOverlapInsideMargins ==
    /\ \A i, j \in 1..Len(placeholders) :
          i < j => Disjoint(placeholders[i], placeholders[j])
    /\ \A i \in 1..Len(placeholders) : InsideMargins(placeholders[i])

\* C1 as stated: for every layout configuration for which calculateGrid
\* reports no error, no two placeholders overlap and every placeholder lies
\* inside the margin-reduced paper area.
C1_AnyConfiguration == GridShown => NoOverlapInsideMargins

\* C1 amended: the same for every configuration with positive picture
\* dimensions and a spacing >= 0 for which calculateGrid reports no error.
C1_NoOverlapInsideMargins ==
    (GridShown /\ pictureWidth > 0 /\ EffectiveHeight > 0 /\ spacing >= 0)
        => NoOverlapInsideMargins

\* a grid of several rows and columns with a margin other than the default
C1_Witness ==
    /\ GridShown
    /\ spacing >= 0
    /\ margins = 30
    /\ rows >= 2
    /\ columns >= 2

WidthExceeds == RLt(PaperW, Q(pictureWidth + 2 * margins))
HeightExceeds == RLt(PaperH, Q(EffectiveHeight + 2 * margins))
NoSpace ==
    \/ Floor(Frac(Floor(PaperW) - 2 * margins + spacing, pictureWidth + spacing)) <= 0
    \/ Floor(Frac(Floor(PaperH) - 2 * margins + spacing, EffectiveHeight + spacing)) <= 0

\* C3: calculateGrid reports exactly the first of width-exceeds,
\* height-exceeds, no-space whose condition holds, and none when none holds;
\* whenever an error is reported hasLayoutError is true, rows = 0, columns = 0
\* and placeholders is empty.
C3_FirstFailureReported ==
    phase = "ready" =>
        /\ errorMessage = ( IF WidthExceeds THEN "width"
                            ELSE IF HeightExceeds THEN "height"
                            ELSE IF NoSpace THEN "no-space"
                            ELSE "" )
        /\ hasLayoutError <=> errorMessage # ""
        /\ hasLayoutError => rows = 0 /\ columns = 0 /\ placeholders = << >>

\* width and height both exceed the paper and the width is what is reported
C3_Witness ==
    /\ phase = "ready"
    /\ hasLayoutError
    /\ WidthExceeds
    /\ HeightExceeds
    /\ errorMessage = "width"

\* the margin-reduced paper
AvailableWidth == RSub(PaperW, Q(2 * margins))
AvailableHeight == RSub(PaperH, Q(2 * margins))

\* count items fit into available, count + 1 do not
Maximal(count, picture, available) ==
    /\ RLe(TotalGrid(count, Q(picture), Q(spacing)), available)
    /\ RLt(available, TotalGrid(count + 1, Q(picture), Q(spacing)))

\* the gaps from the margin edges to the first and after the last placeholder
LeftGap == RSub(placeholders[1].left, Q(margins))
RightGap ==
    RSub(RSub(PaperW, Q(margins)),
         RAdd(placeholders[Len(placeholders)].left, Q(pictureWidth)))
TopGap == RSub(placeholders[1].top, Q(margins))
BottomGap ==
    RSub(RSub(PaperH, Q(margins)),
         RAdd(placeholders[Len(placeholders)].top, Q(EffectiveHeight)))

MaximalAndCentered ==
    /\ Maximal(columns, pictureWidth, AvailableWidth)
    /\ Maximal(rows, EffectiveHeight, AvailableHeight)
    /\ LeftGap = RightGap
    /\ TopGap = BottomGap

\* C12 as stated: for every configuration without a layout error the counts
\* are maximal (columns items fit into availableWidth, columns + 1 do not, the
\* same for rows) and the gaps left and right, top and bottom, are equal.
C12_AnyErrorFree == GridShown => MaximalAndCentered

\* C12 amended: the same for every configuration without a layout error in
\* which pictureWidth + spacing > 0 and effective height + spacing > 0.
C12_MaximalAndCentered ==
    (GridShown /\ pictureWidth + spacing > 0 /\ EffectiveHeight + spacing > 0)
        => MaximalAndCentered

\* a grid with leftover space on both axes: 2 columns of 44 mm, spacing 2, in
\* 92 mm
C12_Witness ==
    /\ GridShown
    /\ pictureWidth + spacing > 0
    /\ EffectiveHeight + spacing > 0
    /\ columns = 2
    /\ rows >= 2
    /\ RLt(Q(0), LeftGap)
    /\ RLt(Q(0), TopGap)

\* the settings of the state as the binary64 values calculateGrid works on
PaperWidth64 == DblMulInt(10, DecToDbl(paperSizesCm[selectedPaperSizeIndex + 1].width))
PaperHeight64 == DblMulInt(10, DecToDbl(paperSizesCm[selectedPaperSizeIndex + 1].height))
PictureWidth64 == DecToDbl(pictureWidth)
PictureHeight64 == DecToDbl(pictureHeightMm(pictureWidth, pictureHeight, placeholderShape))
TwoMargins64 == DblMulInt(2, DecToDbl(margins))
Spacing64 == DecToDbl(spacing)

\* positive picture dimensions, margin and spacing not negative
PlainSettings ==
    /\ pictureWidth.n > 0
    /\ pictureHeightMm(pictureWidth, pictureHeight, placeholderShape).n > 0
    /\ margins.n >= 0
    /\ spacing.n >= 0

\* neither the width check nor the height check fails
PassesBothChecks ==
    /\ ~DblLt(PaperWidth64, DblAdd(PictureWidth64, TwoMargins64))
    /\ ~DblLt(PaperHeight64, DblAdd(PictureHeight64, TwoMargins64))

\* columns <= 0 or rows <= 0
NoRoom ==
    \/ Count64(DblSub(PaperWidth64, TwoMargins64), PictureWidth64, Spacing64) <= 0
    \/ Count64(DblSub(PaperHeight64, TwoMargins64), PictureHeight64, Spacing64) <= 0

\* C11: a configuration with positive picture dimensions and non-negative
\* margin and spacing that passes the width check and the height check and yet
\* gives columns <= 0 or rows <= 0 is reported as the no-space error, with
\* hasLayoutError true, rows = 0, columns = 0 and no placeholders; that such
\* configurations exist is C11_Witness.
C11_NoSpaceThirdClass ==
    (phase = "ready" /\ PlainSettings /\ PassesBothChecks /\ NoRoom) =>
        /\ errorMessage = "no-space"
        /\ hasLayoutError
        /\ rows = 0
        /\ columns = 0
        /\ placeholders = << >>

\* paper 100 mm wide, picture 75.04 mm, margin 12.48 mm: 75.04 + 24.96 is 100
\* in binary64 and passes the width check, 100 - 24.96 is below 75.04
C11_Witness ==
    /\ phase = "ready"
    /\ PlainSettings
    /\ PassesBothChecks
    /\ NoRoom
    /\ errorMessage = "no-space"

(***************************************************************************)
(* Image claims.                                                            *)
(***************************************************************************)
\* placeholder p holds an image
HoldsImage(p) == p.imageData # 0 /\ p.imageWidth # 0 /\ p.imageHeight # 0

\* the rendered size of a placeholder in CSS pixels: a round one is as high as
\* it is wide
ShownWidthPx == RMul(Q(pictureWidth), Frac(960, 254))
ShownHeightPx == RMul(Q(EffectiveHeight), Frac(960, 254))

ScaledWidth(p) == RMul(Q(p.imageWidth), p.scale)
ScaledHeight(p) == RMul(Q(p.imageHeight), p.scale)

\* the image of p leaves no gap inside its placeholder on either axis
Covers(p) ==
    /\ RLe(p.offsetX, Q(0))
    /\ RLe(ShownWidthPx, RAdd(p.offsetX, ScaledWidth(p)))
    /\ RLe(p.offsetY, Q(0))
    /\ RLe(ShownHeightPx, RAdd(p.offsetY, ScaledHeight(p)))

\* C4: in every reachable state in which allowWhitespace is false, every
\* placeholder holding an image fully covers its placeholder with no gap on
\* either axis (the placeholder height being the diameter pictureWidth when the
\* shape is round), after any sequence of image load, drag move, wheel zoom,
\* reset, whitespace toggle and parameter changes.
C4_CoverNoGap ==
    (phase = "ready" /\ ~allowWhitespace) =>
        \A k \in 1..Len(placeholders) :
            HoldsImage(placeholders[k]) => Covers(placeholders[k])

\* the offsets handed to constrainOffset
RequestedOffsets == { Q(-1000), Q(-10), Q(0), Q(10) }

\* result lies in [placeholderSize - scaledSize, 0] when the scaled image
\* exceeds the placeholder, and is the centered offset otherwise
WithinOrCentered(result, scaledSize, placeholderSize) ==
    IF RLt(placeholderSize, scaledSize)
    THEN RLe(RSub(placeholderSize, scaledSize), result) /\ RLe(result, Q(0))
    ELSE result = RDiv(RSub(placeholderSize, scaledSize), Q(2))

\* C5: for each axis, constrainOffset returns a value within
\* [placeholderSize - scaledSize, 0] when the scaled image exceeds the
\* placeholder on that axis, and otherwise exactly the centered offset,
\* whatever offset is requested; placeholderSize is the rendered size, and for
\* the round shape the height equals the width.
C5_ConstrainOffsetRange ==
    phase = "ready" =>
        \A k \in 1..Len(placeholders) : \A o \in RequestedOffsets :
            LET p == placeholders[k]
            IN  HoldsImage(p) =>
                  /\ WithinOrCentered(
                        constrainOffset(o, p, "x", pictureWidth, pictureHeight,
                                        placeholderShape),
                        ScaledWidth(p), ShownWidthPx)
                  /\ WithinOrCentered(
                        constrainOffset(o, p, "y", pictureWidth, pictureHeight,
                                        placeholderShape),
                        ScaledHeight(p), ShownHeightPx)

\* the offsets of p center its scaled image in the placeholder
Centered(p) ==
    /\ p.offsetX = RDiv(RSub(ShownWidthPx, ScaledWidth(p)), Q(2))
    /\ p.offsetY = RDiv(RSub(ShownHeightPx, ScaledHeight(p)), Q(2))

\* the scaled image of p lies entirely inside the placeholder
Inside(p) ==
    /\ RLe(Q(0), p.offsetX)
    /\ RLe(RAdd(p.offsetX, ScaledWidth(p)), ShownWidthPx)
    /\ RLe(Q(0), p.offsetY)
    /\ RLe(RAdd(p.offsetY, ScaledHeight(p)), ShownHeightPx)

\* C8: for every image with non-zero dimensions and every placeholder size,
\* fitImageToPlaceholder yields in contain mode a scale <= the scale it yields
\* in cover mode; in both modes the offsets center the scaled image, the
\* contain result lies entirely inside the placeholder and the cover result
\* leaves no gap on either axis.
C8_FitContainCover ==
    phase = "ready" =>
        \A k \in 1..Len(placeholders) :
            HoldsImage(placeholders[k]) =>
                LET contain == fitImageToPlaceholder(placeholders[k], pictureWidth,
                                   pictureHeight, placeholderShape, TRUE)
                    cover == fitImageToPlaceholder(placeholders[k], pictureWidth,
                                   pictureHeight, placeholderShape, FALSE)
                IN  /\ RLe(contain.scale, cover.scale)
                    /\ Centered(contain)
                    /\ Centered(cover)
                    /\ Inside(contain)
                    /\ Covers(cover)

\* a panned portrait image in a round placeholder, whitespace allowed
C8_Witness ==
    /\ phase = "ready"
    /\ placeholderShape = "round"
    /\ allowWhitespace
    /\ \E k \in 1..Len(placeholders) :
          /\ HoldsImage(placeholders[k])
          /\ placeholders[k].imageHeight > placeholders[k].imageWidth
          /\ ~Centered(placeholders[k])

(***************************************************************************)
(* Zoom claims.                                                             *)
(***************************************************************************)
\* max(placeholderW / imageW, placeholderH / imageH) and the min of the two
MinimumCoverScale(p) ==
    RMax(RDiv(ShownWidthPx, Q(p.imageWidth)), RDiv(ShownHeightPx, Q(p.imageHeight)))
ContainScale(p) ==
    RMin(RDiv(ShownWidthPx, Q(p.imageWidth)), RDiv(ShownHeightPx, Q(p.imageHeight)))

\* the scale of p multiplied by 1.1 or by 1 / 1.1
Stepped(p, zoomIn) == RMul(p.scale, IF zoomIn THEN Frac(11, 10) ELSE Frac(10, 11))

ScaleAtLeastCover ==
    (phase = "ready" /\ ~allowWhitespace) =>
        \A k \in 1..Len(placeholders) :
            HoldsImage(placeholders[k]) =>
                RLe(MinimumCoverScale(placeholders[k]), placeholders[k].scale)

\* a wheel step writes the stepped scale, or the floor when the stepped scale
\* is below it and whitespace is not allowed
WheelStepScale(id, zoomIn) ==
    LET p == placeholders[id + 1]
        q == placeholders'[id + 1]
    IN  IF allowWhitespace \/ RLe(MinimumCoverScale(p), Stepped(p, zoomIn))
        THEN q.scale = Stepped(p, zoomIn)
        ELSE q.scale = MinimumCoverScale(p)

\* C6: while allowWhitespace is false, a wheel-zoom step never leaves a
\* placeholder's scale below minimumCoverScale: after any sequence of zoom-in
\* and zoom-out steps on a loaded image, scale >= minimumCoverScale; a zoom-in
\* step multiplies the scale by 1.1 and a zoom-out step by 1/1.1 unless the
\* floor applies.
C6_ZoomFloor ==
    /\ []ScaleAtLeastCover
    /\ [][\A id \in Touched, pt \in Points, zoomIn \in BOOLEAN :
            onWheelAt(id, pt, zoomIn, MaxZoomSteps) => WheelStepScale(id, zoomIn)]_vars

\* two wheel steps on an image that must cover its placeholder, which is now
\* larger than the minimum
C6_Witness ==
    /\ phase = "ready"
    /\ ~allowWhitespace
    /\ \E k \in 1..Len(placeholders) :
          /\ HoldsImage(placeholders[k])
          /\ placeholders[k].edits = 2
          /\ RLt(MinimumCoverScale(placeholders[k]), placeholders[k].scale)

\* the image point under the pointer at pt is the same before and after
AnchorKept(id, pt) ==
    LET p == placeholders[id + 1]
        q == placeholders'[id + 1]
    IN  /\ RDiv(RSub(Q(pt[1]), q.offsetX), q.scale)
              = RDiv(RSub(Q(pt[1]), p.offsetX), p.scale)
        /\ RDiv(RSub(Q(pt[2]), q.offsetY), q.scale)
              = RDiv(RSub(Q(pt[2]), p.offsetY), p.scale)

\* C7 as stated: every wheel-zoom step preserves the image point under the
\* cursor.
C7_AnchorAlways ==
    [][\A id \in Touched, pt \in Points, zoomIn \in BOOLEAN :
          onWheelAt(id, pt, zoomIn, MaxZoomSteps) => AnchorKept(id, pt)]_vars

\* C7 amended: while allowWhitespace is true, a wheel-zoom step preserves the
\* image point under the cursor: (cursorX - newOffsetX) / newScale =
\* (cursorX - offsetX) / oldScale, and symmetrically for Y.
C7_AnchorPreserved ==
    [][\A id \in Touched, pt \in Points, zoomIn \in BOOLEAN :
          (allowWhitespace /\ onWheelAt(id, pt, zoomIn, MaxZoomSteps))
              => AnchorKept(id, pt)]_vars

\* a zoomed image that is no longer centered, whitespace allowed
C7_Witness ==
    /\ phase = "ready"
    /\ allowWhitespace
    /\ \E k \in 1..Len(placeholders) :
          /\ HoldsImage(placeholders[k])
          /\ placeholders[k].edits >= 1
          /\ placeholders[k].scale # ContainScale(placeholders[k])
          /\ ~Centered(placeholders[k])

\* C9: after a whitespace-mode toggle every placeholder that holds an image is
\* re-fitted for the new mode: its scale is min(scaleX, scaleY) if whitespace
\* is now allowed and max(scaleX, scaleY) if not, and its offsets are the
\* centered ones, whatever pan and zoom it had before; placeholders without an
\* image are left unchanged.
C9_ToggleRefits ==
    [][onAllowWhitespaceChange =>
          /\ Len(placeholders') = Len(placeholders)
          /\ \A k \in 1..Len(placeholders) :
                LET p == placeholders[k]
                    q == placeholders'[k]
                IN  IF HoldsImage(p)
                    THEN /\ q.scale = IF allowWhitespace' THEN ContainScale(p)
                                      ELSE MinimumCoverScale(p)
                         /\ q.offsetX = RDiv(RSub(ShownWidthPx, RMul(Q(p.imageWidth), q.scale)), Q(2))
                         /\ q.offsetY = RDiv(RSub(ShownHeightPx, RMul(Q(p.imageHeight), q.scale)), Q(2))
                         /\ q.imageData = p.imageData
                    ELSE q = p]_vars

\* whitespace has been switched on (it is off until the box is ticked) and an
\* image that was zoomed sits fitted and centered next to an empty placeholder
C9_Witness ==
    /\ phase = "ready"
    /\ allowWhitespace
    /\ stored = JsonStringify(CurrentSettings(selectedPaperSizeIndex, pictureWidth,
                    pictureHeight, margins, spacing, TRUE, showCropMarks, placeholderShape))
    /\ \E k, e \in 1..Len(placeholders) :
          /\ HoldsImage(placeholders[k])
          /\ placeholders[k].edits >= 1
          /\ placeholders[k].scale = ContainScale(placeholders[k])
          /\ placeholders[k].scale # MinimumCoverScale(placeholders[k])
          /\ Centered(placeholders[k])
          /\ ~HoldsImage(placeholders[e])

(***************************************************************************)
(* Settings claims.                                                         *)
(***************************************************************************)
\* the stored object has a member named k; the value of its last such member
HasMember(text, k) == \E i \in 1..Len(text.members) : text.members[i][1] = k
MemberValue(text, k) ==
    LET last == CHOOSE i \in 1..Len(text.members) :
                   /\ text.members[i][1] = k
                   /\ \A j \in (i + 1)..Len(text.members) : text.members[j][1] # k
    IN  text.members[last][2]

\* loadSettings gives every field its stored value, or its default when the
\* stored record lacks it; the defaults when nothing usable is stored
MergedOverDefaults ==
    LET got == loadSettings(stored)
    IN  IF stored.kind = "json"
        THEN \A i \in 1..Len(SettingsKeys) :
                LET k == SettingsKeys[i]
                IN  got[k] = IF HasMember(stored, k) THEN MemberValue(stored, k)
                             ELSE DEFAULT_SETTINGS[k]
        ELSE got = DEFAULT_SETTINGS

\* a handler that calls saveSettings takes a step
Saves ==
    \/ onPaperSizeChange
    \/ onParameterChange
    \/ restoreSettings
    \/ onAllowWhitespaceChange

\* what loadSettings returns after the step is the record the step saved
LoadsWhatWasSaved ==
    loadSettings(stored') =
        CurrentSettings(selectedPaperSizeIndex', pictureWidth', pictureHeight', margins',
                        spacing', allowWhitespace', showCropMarks', placeholderShape')

MarkedOnlyIfDragged ==
    \A k \in 1..Len(placeholders) :
        placeholders[k].isDraggingImage =>
            dragState.active /\ dragState.placeholderId = placeholders[k].id

\* no placeholder of the grid is marked as dragged
NoneMarked == \A k \in 1..Len(placeholders) : ~placeholders[k].isDraggingImage

\* C13: in every reachable state a placeholder has isDraggingImage = true only
\* if dragState.active is true and dragState.placeholderId is its id, and
\* after any onMouseUp no placeholder of the grid has isDraggingImage = true,
\* whatever the interleaving of onImageMouseDown, onMouseMove, onMouseUp,
\* clearImage and grid recalculation.
C13_DragMarks == [][MarkedOnlyIfDragged' /\ (onMouseUp => NoneMarked')]_vars

\* placeholder p is as clearImage leaves it
ResetState(p) ==
    /\ p.offsetX = Q(0)
    /\ p.offsetY = Q(0)
    /\ p.scale = Q(1)
    /\ p.imageWidth = 0
    /\ p.imageHeight = 0

\* C14: in every reachable state a placeholder of the grid that holds no image
\* (imageData = null) is in the reset state offsetX = 0, offsetY = 0,
\* scale = 1, imageWidth = 0, imageHeight = 0: a drag still active when its
\* placeholder is cleared or replaced never moves an empty placeholder.
C14_EmptyIsReset ==
    \A k \in 1..Len(placeholders) :
        placeholders[k].imageData = 0 => ResetState(placeholders[k])

(***************************************************************************)
(* Loading claims.                                                          *)
(***************************************************************************)
\* every placeholder shows what the last drop or clear on it asked for
LastActionShown ==
    \A k \in 1..Len(placeholders) : placeholders[k].imageData = placeholders[k].wanted

\* C15: once all pending loads have completed, each placeholder of the grid
\* reflects the most recent user action on it: the image of the file dropped
\* last if no clear followed that drop, and no image if a clear (clearImage or
\* clearAllPictures) was the last action, whatever the order of the load
\* callbacks relative to other drops, clears and grid recalculations.
C15_LastActionWins == pending = {} => LastActionShown
====
